---- MODULE Spec2Model ----
(***************************************************************************)
(* Model of the tipslap ledger: the transaction service (sendTip,          *)
(* recordFunding, recordWithdrawal, getTransactionHistory), the payments   *)
(* service (createPaymentIntent, createPayout, setupConnectedAccount,      *)
(* processSuccessfulPayment, processFailedPayment), the Stripe webhook     *)
(* route, the tip route, userService (createUser, updateUser,              *)
(* updateAvatar) and the user that authService.verifyCode creates.         *)
(*                                                                         *)
(* Amounts and balances are IEEE-754 doubles, as in the program; the       *)
(* amount of a request is the decimal literal of its body, counted in      *)
(* mills (1/1000 of a dollar), and is parsed to the nearest double.        *)
(*                                                                         *)
(* The store is MongoDB behind Prisma (DEPLOYMENT.md, mongo-init.js).  A   *)
(* prisma.$transaction callback reads from the snapshot taken by its first *)
(* operation; its writes become visible together at commit.  A write of a  *)
(* transaction to a document that somebody else has written since the      *)
(* snapshot, or that another open transaction has written and not yet      *)
(* committed, is refused at once with a write conflict and the transaction *)
(* is rolled back.  Calls made outside $transaction are single-document    *)
(* operations that take effect one by one; such a write to a document      *)
(* that an open transaction has written waits until that transaction ends. *)
(*                                                                         *)
(* Every awaited call of a handler is a step of its own.  The rows that a  *)
(* transaction inserts carry the time of their insert and join the ledger  *)
(* when the transaction commits.  The clock matters only where createdAt   *)
(* is read, in the history: it advances in HistorySpec alone.  Tips come   *)
(* through the route; SendTipSpec also has sendTip called as a function.   *)
(***************************************************************************)
EXTENDS Integers, Sequences, FiniteSets, TLC

\* ------------------------------------------------------------------ bounds
NProcs == 2
MaxOps == 2

\* ---------------------------------------- numbers: IEEE-754 binary64
\* The program's amounts and balances are JavaScript numbers, stored as
\* MongoDB doubles.  A double is kept here exactly: a sign and a magnitude
\* in units of 2^-64, written in NLimbs limbs of LimbBits bits, lowest limb
\* first; the top limb is the integer part.  Every operation computes the
\* exact result and rounds it to MantBits significant bits, ties to even,
\* as the hardware does.
LimbBits == 16
NLimbs == 5
MantBits == 53

\* F at the value of e, and at the values of e1 and e2: the argument is
\* evaluated once, whatever use F makes of it
Let(e, F(_)) == CHOOSE r \in {F(v) : v \in {e}} : TRUE
Let2(e1, e2, F(_, _)) == CHOOSE r \in {F(v, w) : v \in {e1}, w \in {e2}} : TRUE

RECURSIVE Pow2(_)
Pow2(k) == IF k = 0 THEN 1 ELSE 2 * Pow2(k - 1)

Base == Pow2(LimbBits)
Limbs == 1..NLimbs
ZeroMag == [i \in Limbs |-> 0]

RECURSIVE CarryAt(_, _, _)
CarryAt(a, b, i) ==
    IF i = 0 THEN 0 ELSE (a[i] + b[i] + CarryAt(a, b, i - 1)) \div Base

MagAdd(a, b) ==
    Let2(a, b, LAMBDA m, n :
        [i \in Limbs |->
            Let(m[i] + n[i] + CarryAt(m, n, i - 1),
                LAMBDA t : IF i = NLimbs THEN t ELSE t % Base)])

RECURSIVE BorrowAt(_, _, _)
BorrowAt(a, b, i) ==
    IF i = 0 THEN 0
    ELSE IF a[i] - b[i] - BorrowAt(a, b, i - 1) < 0 THEN 1 ELSE 0

\* a - b for a >= b
MagSub(a, b) ==
    Let2(a, b, LAMBDA m, n :
        [i \in Limbs |->
            Let(m[i] - n[i] - BorrowAt(m, n, i - 1),
                LAMBDA t : IF i = NLimbs THEN t ELSE (t + Base) % Base)])

RECURSIVE MagLessFrom(_, _, _)
MagLessFrom(a, b, i) ==
    IF i = 0 THEN FALSE
    ELSE IF a[i] # b[i] THEN a[i] < b[i]
    ELSE MagLessFrom(a, b, i - 1)

MagLess(a, b) == Let2(a, b, LAMBDA m, n : MagLessFrom(m, n, NLimbs))

RECURSIVE MulCarryAt(_, _, _)
MulCarryAt(a, k, i) ==
    IF i = 0 THEN 0 ELSE (a[i] * k + MulCarryAt(a, k, i - 1)) \div Base

MagMul(a, k) ==
    Let(a, LAMBDA m :
        [i \in Limbs |->
            Let(m[i] * k + MulCarryAt(m, k, i - 1),
                LAMBDA t : IF i = NLimbs THEN t ELSE t % Base)])

\* long division of the integer n by d: the remainder left after limb i
RECURSIVE RemAt(_, _, _)
RemAt(n, d, i) ==
    IF i = NLimbs THEN n % d ELSE (RemAt(n, d, i + 1) * Base) % d

Quot(n, d) ==
    [i \in Limbs |->
        IF i = NLimbs THEN n \div d ELSE (RemAt(n, d, i + 1) * Base) \div d]

Inexact(n, d) == RemAt(n, d, 1) # 0

RECURSIVE Width(_)
Width(n) == IF n = 0 THEN 0 ELSE 1 + Width(n \div 2)

BitLen(a) ==
    Let(a, LAMBDA m :
        IF m = ZeroMag THEN 0
        ELSE Let(CHOOSE i \in Limbs :
                    m[i] # 0 /\ \A j \in Limbs : j > i => m[j] = 0,
                 LAMBDA top : LimbBits * (top - 1) + Width(m[top])))

Bit(a, k) == (a[(k \div LimbBits) + 1] \div Pow2(k % LimbBits)) % 2

\* a mod 2^k
Below(a, k) ==
    [i \in Limbs |->
        IF i < (k \div LimbBits) + 1 THEN a[i]
        ELSE IF i = (k \div LimbBits) + 1 THEN a[i] % Pow2(k % LimbBits)
        ELSE 0]

PowMag(k) ==
    [i \in Limbs |-> IF i = (k \div LimbBits) + 1 THEN Pow2(k % LimbBits)
                     ELSE 0]

\* round to nearest, ties to even; sticky says the exact value lies above a
RoundMag(a, sticky) ==
    Let2(a, BitLen(a) - MantBits, LAMBDA m, d :
        IF d <= 0 THEN m
        ELSE Let2(Below(m, d), PowMag(d - 1), LAMBDA low, half :
                IF \/ MagLess(half, low)
                   \/ low = half /\ (sticky \/ Bit(m, d) = 1)
                THEN MagAdd(MagSub(m, low), PowMag(d))
                ELSE MagSub(m, low)))

Abs(n) == IF n < 0 THEN 0 - n ELSE n

Dbl(neg, mag) ==
    Let(mag, LAMBDA m : [neg |-> neg /\ m # ZeroMag, mag |-> m])

Zero == Dbl(FALSE, ZeroMag)

\* an integer literal
FromInt(n) ==
    Dbl(n < 0, [i \in Limbs |-> IF i = NLimbs THEN Abs(n) ELSE 0])

\* JSON.parse of a decimal literal, given in mills: the nearest double
Parse(mills) ==
    Dbl(mills < 0, RoundMag(Quot(Abs(mills), 1000), Inexact(Abs(mills), 1000)))

Neg(x) == Let(x, LAMBDA a : Dbl(~a.neg, a.mag))

\* the sum as a real number
ExactAdd(x, y) ==
    Let2(x, y, LAMBDA a, b :
        IF a.neg = b.neg THEN Dbl(a.neg, MagAdd(a.mag, b.mag))
        ELSE IF MagLess(a.mag, b.mag) THEN Dbl(b.neg, MagSub(b.mag, a.mag))
        ELSE Dbl(a.neg, MagSub(a.mag, b.mag)))

\* x + y, x - y, x < y, x <= y on doubles
DAdd(x, y) ==
    Let(ExactAdd(x, y), LAMBDA e : Dbl(e.neg, RoundMag(e.mag, FALSE)))
DSub(x, y) == DAdd(x, Neg(y))
DLess(x, y) ==
    Let2(x, y, LAMBDA a, b :
        IF a.neg # b.neg THEN a.neg
        ELSE IF a.neg THEN MagLess(b.mag, a.mag)
        ELSE MagLess(a.mag, b.mag))
DLeq(x, y) == ~DLess(y, x)

\* x * 100
Times100(x) ==
    Let(x, LAMBDA a : Dbl(a.neg, RoundMag(MagMul(a.mag, 100), FALSE)))

\* Math.round: the nearest integer, ties towards +Infinity
MathRound(x) ==
    Let(x, LAMBDA a :
        LET whole == a.mag[NLimbs]
            frac == Below(a.mag, LimbBits * (NLimbs - 1))
            half == PowMag(LimbBits * (NLimbs - 1) - 1)
        IN IF a.neg
           THEN 0 - (whole + (IF MagLess(half, frac) THEN 1 ELSE 0))
           ELSE whole + (IF MagLess(frac, half) THEN 0 ELSE 1))

\* n / 100 for an integer n
Over100(n) ==
    Let(n, LAMBDA k :
        Dbl(k < 0, RoundMag(Quot(Abs(k), 100), Inexact(Abs(k), 100))))

\* Math.round(amount * 100) / 100
round2(amount) == Over100(MathRound(Times100(amount)))

\* ------------------------------------------------------- program constants
MaxTipDollars == 500
MinFundDollars == 1
MaxFundDollars == 10000

Procs == 1..NProcs

\* u1 and u2 are registered when a run starts; u3 registers during it
InitUsers == {"u1", "u2"}
NewUser == "u3"
UserIds == InitUsers \cup {NewUser}
NoUser == "none"

NoRef == 0
ForeignPi == 0 - 1

\* ------------------------------------------------------------------ inputs
\* amounts are the decimal literals of the request bodies, in mills
InitFundMills == 20000
InitIntentMills == 10000
TipRequests ==
    {<<"u1", "u2", 20000>>, <<"u2", "u1", 20000>>, <<"u1", "u1", 20000>>,
     <<"u1", "u2", 5>>, <<"u1", "u2", 500004>>,
     <<"u1", NewUser, 0>>, <<"u1", NewUser, 20000>>, <<"u1", "u1", 0>>}
\* calls of transactionService.sendTip that do not come through the route
SendTipCalls ==
    {<<"u1", "u1", 20000>>, <<NewUser, "u1", 20000>>, <<"u1", "u2", 0>>}
FundAmounts == {700000}
RecordedAmounts == {70000000, 4}
RecordedUsers == {"u1"}
PayoutAmounts == {20000}
Literals ==
    {q[3] : q \in TipRequests \cup SendTipCalls}
       \cup FundAmounts \cup RecordedAmounts
       \cup PayoutAmounts \cup {InitFundMills, InitIntentMills}

\* the payment intents settled before a run starts, the one still open,
\* and the ids recordFunding and recordWithdrawal are called with
SettledRef == [u \in InitUsers |-> IF u = "u1" THEN 1 ELSE 2]
OpenRef == 3
FundingRefs == {OpenRef}
PayoutRefs == {1}
Kinds == {"succeeded", "failed"}
PayoutKinds == {"payout.paid", "payout.failed"}
PatchedUsers == {"u1"}
\* the aliases users choose; verifyCode gives a new user the alias ""
Patches == {[g |-> "false", r |-> "keep", a |-> "a3"],
            [g |-> "keep", r |-> "false", a |-> "keep"],
            [g |-> "keep", r |-> "keep", a |-> ""]}
NewUserRequests == {[g |-> "true", r |-> "false", a |-> "a3"],
                    [g |-> "false", r |-> "false", a |-> "a3"],
                    [g |-> "false", r |-> "false", a |-> "a1"]}
AccountUsers == {"u2"}
AvatarUsers == {"u1"}

\* express.json(): the number a request body carries
Parsed == [m \in Literals |-> Parse(m)]

\* lines 153, 276, 324 of the transaction service, on those numbers
roundedAmount == [m \in Literals |-> round2(Parsed[m])]

MaxTip == FromInt(MaxTipDollars)
MinFund == FromInt(MinFundDollars)
MaxFund == FromInt(MaxFundDollars)

\* ------------------------------------------------------------------- state
\* users        the user collection: balance, alias, the two tip flags,
\*              whether the Stripe customer and connected-account ids are
\*              set, whether an avatar key is set
\* txs          the transaction collection, in insertion order
\* stripeEvents the stripe_events collection: event id -> processed
\* credited     history: amount added to a balance on behalf of each event
\* proc         each request handler's position and locals between awaits
\* last         the record of the call that finished most recently
\* nops         number of calls started
\* now          the clock, in milliseconds
VARIABLES users, txs, stripeEvents, credited, proc, last, nops, now

vars == <<users, txs, stripeEvents, credited, proc, last, nops, now>>

Idle == [pc |-> "idle", op |-> "none", s |-> NoUser, r |-> NoUser,
         amt |-> 0, num |-> Zero, ramt |-> Zero, sBal |-> Zero, rBal |-> Zero,
         sGive |-> FALSE, rRecv |-> FALSE, dirty |-> {},
         kind |-> "none", ref |-> NoRef, tx |-> 0, pg |-> "keep", pr |-> "keep",
         pa |-> "keep",
         sNew |-> Zero, rNew |-> Zero, dup |-> FALSE, rival |-> FALSE,
         err |-> "ok", res |-> "none", wrote |-> FALSE,
         page |-> 0, limit |-> 0, currentPage |-> 0, take |-> 0,
         rows |-> <<>>, ins |-> <<>>, ver |-> 0, totalCount |-> 0, totalPages |-> 0,
         hasNextPage |-> FALSE, hasPreviousPage |-> FALSE]

Exists(u) == u \in DOMAIN users

\* some user other than those of except has the alias
AliasTaken(alias, except) ==
    \E u \in DOMAIN users \ except : users[u].alias = alias

Max(S) == CHOOSE x \in S : \A y \in S : y <= x

\* the payment intents the processor has issued whose row is yet to be
\* inserted
Issued == {proc[p].ref : p \in {q \in Procs : proc[q].pc = "cpInsert"}}

\* the next id the payment processor hands out
FreshRef == 1 + Max({0} \cup {txs[i].pi : i \in DOMAIN txs}
                        \cup {txs[i].po : i \in DOMAIN txs} \cup Issued)

\* a transaction document; createdAt is @default(now())
Row(type, amount, senderId, receiverId, status, pi, po) ==
    [type |-> type, amount |-> amount, senderId |-> senderId,
     receiverId |-> receiverId, status |-> status, pi |-> pi, po |-> po,
     createdAt |-> now]

\* the user documents a handler's open transaction has written and not
\* committed
Held(rec) ==
    IF rec.pc \in {"tipUpdate2", "tipAbort"} THEN {rec.s}
    ELSE IF rec.pc \in {"tipCreate1", "tipCreate2", "tipCommit"}
         THEN {rec.s, rec.r}
    ELSE IF rec.pc \in {"rfCreate", "rfCommit"} THEN {rec.r}
    ELSE IF rec.pc \in {"wdCreate", "wdCommit"} THEN {rec.s}
    ELSE {}

\* the user documents a handler's open transaction has read and is yet to
\* write
ToWrite(rec) ==
    IF rec.pc = "tipUpdate1" THEN {rec.s, rec.r}
    ELSE IF rec.pc = "tipUpdate2" THEN {rec.r}
    ELSE IF rec.pc = "wdUpdate" THEN {rec.s}
    ELSE {}

HeldByOther(p, doc) == \E q \in Procs \ {p} : doc \in Held(proc[q])

\* a write that takes effect on the documents U by process p invalidates
\* the snapshot of every other open transaction for those documents
MarkDirtyNone(pr, p, U) == pr
MarkDirty(pr, p, U) ==
    [q \in Procs |-> IF q # p
                     THEN [pr[q] EXCEPT !.dirty = @ \cup (U \cap ToWrite(pr[q]))]
                     ELSE pr[q]]

\* the store's write-conflict rule for a write of p's transaction to doc:
\* the write is applied or refused at once, no transaction waits for
\* another one
WriteConflict(p, doc) == doc \in proc[p].dirty \/ HeldByOther(p, doc)

\* the handler returns: only what the response and the log show is kept
Finish(me, result) ==
    [Idle EXCEPT !.op = me.op, !.s = me.s, !.r = me.r, !.amt = me.amt,
                 !.kind = me.kind, !.ref = me.ref,
                 !.sGive = me.sGive, !.rRecv = me.rRecv,
                 !.tx = me.tx, !.sNew = me.sNew, !.rNew = me.rNew,
                 !.dup = me.dup, !.rival = me.rival,
                 !.wrote = me.wrote, !.res = result,
                 !.page = me.page, !.limit = me.limit,
                 !.currentPage = me.currentPage, !.take = me.take,
                 !.rows = me.rows, !.ver = me.ver,
                 !.totalCount = me.totalCount, !.totalPages = me.totalPages,
                 !.hasNextPage = me.hasNextPage,
                 !.hasPreviousPage = me.hasPreviousPage]

\* process p moves to rec; a handler that has returned leaves its response
\* in last and its process free for the next request
Step(p, pr, rec) ==
    IF rec.pc = "idle"
    THEN proc' = [pr EXCEPT ![p] = Idle] /\ last' = rec
    ELSE proc' = [pr EXCEPT ![p] = rec] /\ last' = last

\* requests are taken by the first free handler
Begin(p, op) ==
    /\ proc[p].pc = "idle"
    /\ \A q \in Procs : q < p => proc[q].pc # "idle"
    /\ nops < MaxOps
    /\ nops' = nops + 1

\* ------------------------------------------------------- the database
\* A run starts from a database the service itself has produced.  u1 and
\* u2 are registered with both tip flags set, u1 has chosen its alias and
\* has been through setupConnectedAccount; a funded user has chosen its
\* alias, has paid InitFundMills through createPaymentIntent and its
\* success event has been processed; u2, when it has not funded, still has
\* the alias verifyCode gave it; u1 may have a second payment intent open.
NewUserDoc(alias, canGiveTips, canReceiveTips, stripeCustomerId) ==
    [balance |-> Zero, alias |-> alias, canGiveTips |-> canGiveTips,
     canReceiveTips |-> canReceiveTips,
     stripeCustomerId |-> stripeCustomerId, stripeAccountId |-> FALSE,
     avatarUrl |-> FALSE]

InitUser(u, funded, intent) ==
    [NewUserDoc(IF u = "u1" THEN "a1" ELSE IF funded THEN "a2" ELSE "",
                TRUE, TRUE, funded \/ intent) EXCEPT
        !.balance = IF funded THEN Parsed[InitFundMills] ELSE Zero,
        !.stripeAccountId = (u = "u1")]

InitRows(F, intent) ==
    (IF "u1" \in F
     THEN <<[type |-> "ADD_FUNDS", amount |-> Parsed[InitFundMills],
             senderId |-> NoUser, receiverId |-> "u1",
             status |-> "COMPLETED", pi |-> SettledRef["u1"], po |-> NoRef]>>
     ELSE <<>>)
    \o (IF "u2" \in F
        THEN <<[type |-> "ADD_FUNDS", amount |-> Parsed[InitFundMills],
                senderId |-> NoUser, receiverId |-> "u2",
                status |-> "COMPLETED", pi |-> SettledRef["u2"],
                po |-> NoRef]>>
        ELSE <<>>)
    \o (IF intent
        THEN <<[type |-> "ADD_FUNDS", amount |-> Parsed[InitIntentMills],
                senderId |-> NoUser, receiverId |-> "u1",
                status |-> "PENDING", pi |-> OpenRef, po |-> NoRef]>>
        ELSE <<>>)

\* rows inserted one per millisecond
Stamped(rows) ==
    [i \in DOMAIN rows |->
        [type |-> rows[i].type, amount |-> rows[i].amount,
         senderId |-> rows[i].senderId, receiverId |-> rows[i].receiverId,
         status |-> rows[i].status, pi |-> rows[i].pi, po |-> rows[i].po,
         createdAt |-> i]]

EventId(kind, pi) == <<kind, pi>>

\* the databases a run starts from: who has funded the account, and
\* whether u1 has a payment intent open
InitDatabases == {<<{}, FALSE>>, <<{"u1"}, FALSE>>, <<{"u1", "u2"}, TRUE>>}

InitDatabase(F, intent) ==
    /\ users = [u \in InitUsers |->
                   InitUser(u, u \in F, u = "u1" /\ intent)]
    /\ txs = Stamped(InitRows(F, intent))
    /\ stripeEvents = [ev \in {EventId("succeeded", SettledRef[u]) : u \in F}
                          |-> TRUE]
    /\ credited = [ev \in {EventId("succeeded", SettledRef[u]) : u \in F}
                      |-> Parsed[InitFundMills]]
    /\ now = Len(InitRows(F, intent))

Init ==
    /\ \E db \in InitDatabases : InitDatabase(db[1], db[2])
    /\ proc = [p \in Procs |-> Idle]
    /\ last = Idle
    /\ nops = 0

\* ------------------------------------------------- POST /transactions/tip
\* routes/transactions.ts line 86
IsSelfTip(senderId, recipientId) == senderId = recipientId

\* sendTip lines 143-150: the checks made on the amount as received
AmountCheck(amount) ==
    IF DLeq(amount, Zero) THEN "AmountNotPositive"
    ELSE IF DLess(MaxTip, amount) THEN "AmountTooLarge"
    ELSE "ok"

\* sendTip lines 181-203, on the snapshot read at lines 158-179
TipValidateNoRecv(sEx, rEx, sGive, rRecv, sBal, ramt) ==
    IF ~sEx THEN "SenderNotFound"
    ELSE IF ~rEx THEN "ReceiverNotFound"
    ELSE IF ~sGive THEN "SenderNotPermitted"
    ELSE IF DLess(sBal, ramt) THEN "InsufficientBalance"
    ELSE "ok"
TipValidate(sEx, rEx, sGive, rRecv, sBal, ramt) ==
    IF ~sEx THEN "SenderNotFound"
    ELSE IF ~rEx THEN "ReceiverNotFound"
    ELSE IF ~sGive THEN "SenderNotPermitted"
    ELSE IF ~rRecv THEN "ReceiverNotPermitted"
    ELSE IF DLess(sBal, ramt) THEN "InsufficientBalance"
    ELSE "ok"

\* a throw inside the callback skips the rest of it and rolls back
ThrowsLate(err) == err \notin {"ok", "InsufficientBalance"}
Throws(err) == err # "ok"

\* sendTip lines 137-203: the amount checks, the rounding, then the reads
\* of sender and receiver that open the transaction's snapshot and the
\* checks made on them.  The result is the caller's record: finished with
\* the error thrown, or about to write.
sendTip(senderId, recipientId, amount) ==
    LET base == [Idle EXCEPT !.op = "tip", !.s = senderId,
                             !.r = recipientId, !.amt = amount]
        sEx == Exists(senderId)
        rEx == Exists(recipientId)
        sB == IF sEx THEN users[senderId].balance ELSE Zero
        rB == IF rEx THEN users[recipientId].balance ELSE Zero
        sG == IF sEx THEN users[senderId].canGiveTips ELSE FALSE
        rR == IF rEx THEN users[recipientId].canReceiveTips ELSE FALSE
        ra == roundedAmount[amount]
        e == TipValidate(sEx, rEx, sG, rR, sB, ra)
        snap == [base EXCEPT !.ramt = ra, !.sBal = sB, !.rBal = rB,
                             !.sGive = sG, !.rRecv = rR, !.err = e]
    IN IF AmountCheck(Parsed[amount]) # "ok"
       THEN Finish(base, AmountCheck(Parsed[amount]))
       ELSE IF Throws(e) THEN Finish(snap, e)
       ELSE [snap EXCEPT !.pc = "tipUpdate1"]

\* sendTip line 156: the call returns what prisma.$transaction returns; a
\* transaction the store has refused rejects the call, which is not made
\* again (the route answers 500)
TipConflictRetry(me) == sendTip(me.s, me.r, me.amt)
TipConflict(me) == Finish(me, "WriteConflict")

\* transactionService.sendTip called as a function, lines 137-203
SendTipCall(p, senderId, receiverId, amount) ==
    /\ Begin(p, "tip")
    /\ Step(p, proc, sendTip(senderId, receiverId, amount))
    /\ UNCHANGED <<users, txs, stripeEvents, credited, now>>

\* sendTipSchema (middleware, lines 722-739) as the validation middleware
\* applies it: Joi in its default converting mode rounds the amount to 2
\* places, then requires it positive and at most 500.  The request body
\* is left as received: the handler sees the unrounded amount.
TipSchema(amount) ==
    IF \/ DLeq(roundedAmount[amount], Zero)
       \/ DLess(MaxTip, roundedAmount[amount])
    THEN "ValidationError"
    ELSE "ok"

\* POST /transactions/tip, lines 77-141: the body validation, the
\* self-tip check, then sendTip
TipRoute(p, senderId, recipientId, amount) ==
    /\ Begin(p, "tip")
    /\ LET base == [Idle EXCEPT !.op = "tip", !.s = senderId,
                                !.r = recipientId, !.amt = amount]
       IN Step(p, proc,
               IF TipSchema(amount) # "ok"
               THEN Finish(base, TipSchema(amount))
               ELSE IF IsSelfTip(senderId, recipientId)
                    THEN Finish(base, "SelfTip")
               ELSE sendTip(senderId, recipientId, amount))
    /\ UNCHANGED <<users, txs, stripeEvents, credited, now>>

\* lines 205-207
senderNewBalance(sBal, ramt) == DSub(sBal, ramt)
receiverNewBalance(rBal, ramt) == DAdd(rBal, ramt)

\* lines 224-233 and 235-244: the data of the two rows
TipSendRow(me) ==
    Row("SEND_TIP", me.ramt, me.s, me.r, "COMPLETED", NoRef, NoRef)
\* the second row written as a copy of the first
TipSendRowAgain(me) == TipSendRow(me)

TipReceiveRow(me) ==
    Row("RECEIVE_TIP", me.ramt, me.s, me.r, "COMPLETED", NoRef, NoRef)

\* when a tip commits, every other open tip transaction of the same sender
\* whose amount the sender's balance covered alone but not together with
\* the committed one has a rival (history only)
MarkRival(pr, p, me) ==
    [q \in Procs |->
        IF /\ q # p /\ pr[q].pc = "tipUpdate1" /\ pr[q].s = me.s
           /\ pr[q].sBal = me.sBal
           /\ DLess(me.sBal, DAdd(pr[q].ramt, me.ramt))
        THEN [pr[q] EXCEPT !.rival = TRUE]
        ELSE pr[q]]

\* lines 211-214: the update of the sender's document
SendTipUpdateSender(p) ==
    /\ proc[p].pc = "tipUpdate1"
    /\ LET me == proc[p]
       IN Step(p, proc,
               IF WriteConflict(p, me.s) THEN TipConflict(me)
               ELSE [me EXCEPT !.pc = "tipUpdate2"])
    /\ UNCHANGED <<users, txs, stripeEvents, credited, nops, now>>

\* lines 215-218: the update of the receiver's document; when it is
\* refused the sender's document stays written until the rollback
SendTipUpdateReceiver(p) ==
    /\ proc[p].pc = "tipUpdate2"
    /\ LET me == proc[p]
       IN Step(p, proc,
               IF WriteConflict(p, me.r) THEN [me EXCEPT !.pc = "tipAbort"]
               ELSE [me EXCEPT !.pc = "tipCreate1"])
    /\ UNCHANGED <<users, txs, stripeEvents, credited, nops, now>>

\* the callback has thrown: the transaction is rolled back
SendTipRollback(p) ==
    /\ proc[p].pc = "tipAbort"
    /\ Step(p, proc, TipConflict(proc[p]))
    /\ UNCHANGED <<users, txs, stripeEvents, credited, nops, now>>

\* lines 224-233: the SEND_TIP row is inserted inside the transaction
SendTipCreateSend(p) ==
    /\ proc[p].pc = "tipCreate1"
    /\ Step(p, proc, [proc[p] EXCEPT !.pc = "tipCreate2",
                                     !.ins = Append(@, TipSendRow(proc[p]))])
    /\ UNCHANGED <<users, txs, stripeEvents, credited, nops, now>>

\* lines 235-244: the RECEIVE_TIP row is inserted inside the transaction
SendTipCreateReceive(p) ==
    /\ proc[p].pc = "tipCreate2"
    /\ Step(p, proc, [proc[p] EXCEPT !.pc = "tipCommit",
                                     !.ins = Append(@, TipReceiveRow(proc[p]))])
    /\ UNCHANGED <<users, txs, stripeEvents, credited, nops, now>>

\* lines 247-264: the callback returns and the transaction commits, which
\* makes the two balance updates and the two rows visible.  The updates
\* were issued together (Promise.all, lines 210-219): when sender and
\* receiver are one document, either value may be the one that stays.
SendTipCommit(p) ==
    /\ proc[p].pc = "tipCommit"
    /\ LET me == proc[p]
       IN /\ \E stays \in IF me.s = me.r
                           THEN {senderNewBalance(me.sBal, me.ramt),
                                 receiverNewBalance(me.rBal, me.ramt)}
                           ELSE {receiverNewBalance(me.rBal, me.ramt)} :
                users' = [users EXCEPT
                   ![me.s].balance = senderNewBalance(me.sBal, me.ramt),
                   ![me.r].balance = stays]
          /\ txs' = txs \o me.ins
          /\ Step(p, MarkRival(MarkDirty(proc, p, {me.s, me.r}), p, me),
                  Finish([me EXCEPT
                            !.sNew = senderNewBalance(me.sBal, me.ramt),
                            !.rNew = receiverNewBalance(me.rBal, me.ramt),
                            !.wrote = TRUE], me.err))
    /\ UNCHANGED <<stripeEvents, credited, nops, now>>

\* ------------------------------------------- transactionService (part_005)
\* recordFunding lines 270-287: the increment opens the transaction
recordFunding(p, userId, amount, stripePaymentIntentId) ==
    /\ Begin(p, "recordFunding")
    /\ LET me == [Idle EXCEPT !.op = "recordFunding", !.r = userId,
                              !.amt = amount, !.ramt = roundedAmount[amount],
                              !.ref = stripePaymentIntentId]
       IN Step(p, proc,
               IF ~Exists(userId) THEN Finish(me, "RecordNotFound")
               ELSE IF WriteConflict(p, userId)
                    THEN Finish(me, "WriteConflict")
               ELSE [me EXCEPT !.pc = "rfCreate"])
    /\ UNCHANGED <<users, txs, stripeEvents, credited, now>>

\* recordFunding lines 289-299: the ADD_FUNDS row is inserted inside the
\* transaction
RecordFundingCreate(p) ==
    /\ proc[p].pc = "rfCreate"
    /\ LET me == proc[p]
       IN Step(p, proc,
               [me EXCEPT !.pc = "rfCommit",
                          !.ins = <<Row("ADD_FUNDS", me.ramt, NoUser, me.r,
                                        "COMPLETED", me.ref, NoRef)>>])
    /\ UNCHANGED <<users, txs, stripeEvents, credited, nops, now>>

\* recordFunding lines 301-312: the callback returns and the transaction
\* commits
RecordFundingCommit(p) ==
    /\ proc[p].pc = "rfCommit"
    /\ LET me == proc[p]
       IN /\ users' = [users EXCEPT ![me.r].balance = DAdd(@, me.ramt)]
          /\ txs' = txs \o me.ins
          /\ Step(p, MarkDirty(proc, p, {me.r}),
                  Finish([me EXCEPT !.wrote = TRUE], "ok"))
    /\ UNCHANGED <<stripeEvents, credited, nops, now>>

\* recordWithdrawal lines 318-339: the read that opens the snapshot
WithdrawalCheck(uEx, bal, ramt) ==
    IF ~uEx THEN "UserNotFound"
    ELSE IF DLess(bal, ramt) THEN "InsufficientBalance"
    ELSE "ok"

recordWithdrawal(p, userId, amount, stripePayoutId) ==
    /\ Begin(p, "recordWithdrawal")
    /\ LET uEx == Exists(userId)
           bal == IF uEx THEN users[userId].balance ELSE Zero
           me == [Idle EXCEPT !.op = "recordWithdrawal", !.s = userId,
                              !.amt = amount, !.ramt = roundedAmount[amount],
                              !.ref = stripePayoutId, !.sBal = bal]
           e == WithdrawalCheck(uEx, bal, me.ramt)
       IN Step(p, proc,
               IF e # "ok" THEN Finish(me, e) ELSE [me EXCEPT !.pc = "wdUpdate"])
    /\ UNCHANGED <<users, txs, stripeEvents, credited, now>>

\* recordWithdrawal lines 341-349: the decrement
WithdrawalUpdate(p) ==
    /\ proc[p].pc = "wdUpdate"
    /\ LET me == proc[p]
       IN Step(p, proc,
               IF WriteConflict(p, me.s) THEN Finish(me, "WriteConflict")
               ELSE [me EXCEPT !.pc = "wdCreate"])
    /\ UNCHANGED <<users, txs, stripeEvents, credited, nops, now>>

\* recordWithdrawal lines 351-361: the WITHDRAW row is inserted inside
\* the transaction
WithdrawalCreate(p) ==
    /\ proc[p].pc = "wdCreate"
    /\ LET me == proc[p]
       IN Step(p, proc,
               [me EXCEPT !.pc = "wdCommit",
                          !.ins = <<Row("WITHDRAW", me.ramt, me.s, NoUser,
                                        "COMPLETED", NoRef, me.ref)>>])
    /\ UNCHANGED <<users, txs, stripeEvents, credited, nops, now>>

\* recordWithdrawal lines 363-374: the callback returns and the
\* transaction commits
WithdrawalCommit(p) ==
    /\ proc[p].pc = "wdCommit"
    /\ LET me == proc[p]
       IN /\ users' = [users EXCEPT ![me.s].balance = DSub(@, me.ramt)]
          /\ txs' = txs \o me.ins
          /\ Step(p, MarkDirty(proc, p, {me.s}),
                  Finish([me EXCEPT !.wrote = TRUE], "ok"))
    /\ UNCHANGED <<stripeEvents, credited, nops, now>>

\* ------------------------------------------------ paymentsService (s3.ts)
\* createPaymentIntent lines 99-106
FundingCheck(uEx, amount) ==
    IF ~uEx THEN "UserNotFound"
    ELSE IF DLess(amount, MinFund) \/ DLess(MaxFund, amount)
         THEN "AmountOutOfRange"
    ELSE "ok"

\* createPaymentIntent lines 140-150: the row that records the intent
IntentRowCompleted(amount, userId, paymentIntentId) ==
    Row("ADD_FUNDS", amount, NoUser, userId, "COMPLETED", paymentIntentId,
        NoRef)
IntentRow(amount, userId, paymentIntentId) ==
    Row("ADD_FUNDS", amount, NoUser, userId, "PENDING", paymentIntentId, NoRef)

\* createPaymentIntent lines 93-110: the user is read and the amount
\* checked
createPaymentIntent(p, userId, amount) ==
    /\ Begin(p, "createPaymentIntent")
    /\ LET me == [Idle EXCEPT !.op = "createPaymentIntent", !.r = userId,
                              !.amt = amount, !.num = Parsed[amount]]
           e == FundingCheck(Exists(userId), me.num)
       IN Step(p, proc,
               IF e # "ok" THEN Finish(me, e)
               ELSE IF users[userId].stripeCustomerId
                    THEN [me EXCEPT !.pc = "cpCreate"]
               ELSE [me EXCEPT !.pc = "cpCustomer"])
    /\ UNCHANGED <<users, txs, stripeEvents, credited, now>>

\* lines 110-127: a user without a Stripe customer gets one, and the id is
\* written to the user document
IntentCustomer(p) ==
    /\ proc[p].pc = "cpCustomer"
    /\ ~HeldByOther(p, proc[p].r)
    /\ users' = [users EXCEPT ![proc[p].r].stripeCustomerId = TRUE]
    /\ Step(p, MarkDirty(proc, p, {proc[p].r}),
            [proc[p] EXCEPT !.pc = "cpCreate"])
    /\ UNCHANGED <<txs, stripeEvents, credited, nops, now>>

\* lines 129-138: the processor issues the payment intent
IntentIssue(p) ==
    /\ proc[p].pc = "cpCreate"
    /\ Step(p, proc, [proc[p] EXCEPT !.pc = "cpInsert", !.ref = FreshRef])
    /\ UNCHANGED <<users, txs, stripeEvents, credited, nops, now>>

\* lines 140-161: the PENDING row is inserted
IntentInsert(p) ==
    /\ proc[p].pc = "cpInsert"
    /\ LET me == proc[p]
       IN /\ txs' = Append(txs, IntentRow(me.num, me.r, me.ref))
          /\ Step(p, proc, Finish([me EXCEPT !.wrote = TRUE], "ok"))
    /\ UNCHANGED <<users, stripeEvents, credited, nops, now>>

\* createPayout lines 184-206, on the user read at lines 180-182
PayoutCheck(uEx, canReceiveTips, balance, amount, stripeAccountId) ==
    IF ~uEx THEN "UserNotFound"
    ELSE IF ~canReceiveTips THEN "NotEligible"
    ELSE IF DLeq(amount, Zero) THEN "AmountNotPositive"
    ELSE IF DLess(balance, amount) THEN "InsufficientBalance"
    ELSE IF ~stripeAccountId THEN "NoPayoutAccount"
    ELSE "ok"

createPayout(p, userId, amount) ==
    /\ Begin(p, "createPayout")
    /\ LET uEx == Exists(userId)
           me == [Idle EXCEPT !.op = "createPayout", !.s = userId,
                     !.amt = amount, !.num = Parsed[amount],
                     !.sBal = IF uEx THEN users[userId].balance ELSE Zero]
           e == PayoutCheck(uEx, uEx /\ users[userId].canReceiveTips,
                            me.sBal, me.num,
                            uEx /\ users[userId].stripeAccountId)
       IN Step(p, proc,
               IF e # "ok" THEN Finish(me, e) ELSE [me EXCEPT !.pc = "poIssue"])
    /\ UNCHANGED <<users, txs, stripeEvents, credited, now>>

\* lines 208-234: the connected account is checked, the transfer is issued
\* and the PENDING WITHDRAW row is inserted
PayoutIssue(p) ==
    /\ proc[p].pc = "poIssue"
    /\ LET me == proc[p]
       IN \E payouts_enabled \in BOOLEAN :
            IF ~payouts_enabled
            THEN /\ Step(p, proc, Finish(me, "AccountNotReady"))
                 /\ UNCHANGED txs
            ELSE /\ txs' = Append(txs, Row("WITHDRAW", me.num, me.s, NoUser,
                                           "PENDING", NoRef, FreshRef))
                 /\ Step(p, proc,
                         [me EXCEPT !.pc = "poDebit", !.ref = FreshRef,
                                     !.wrote = TRUE])
    /\ UNCHANGED <<users, stripeEvents, credited, nops, now>>

\* lines 236-255: the balance is decremented by a separate update
PayoutDebit(p) ==
    /\ proc[p].pc = "poDebit"
    /\ ~HeldByOther(p, proc[p].s)
    /\ LET me == proc[p]
       IN /\ users' = [users EXCEPT ![me.s].balance = DSub(@, me.num)]
          /\ Step(p, MarkDirty(proc, p, {me.s}), Finish(me, "ok"))
    /\ UNCHANGED <<txs, stripeEvents, credited, nops, now>>

\* setupConnectedAccount lines 273-293: the user is read; an account whose
\* details are submitted ends the call
setupConnectedAccount(p, userId) ==
    /\ Begin(p, "setupConnectedAccount")
    /\ LET me == [Idle EXCEPT !.op = "setupConnectedAccount", !.s = userId]
       IN \E details_submitted \in BOOLEAN :
            Step(p, proc,
                 IF ~Exists(userId) THEN Finish(me, "UserNotFound")
                 ELSE IF ~users[userId].canReceiveTips
                      THEN Finish(me, "NotEligible")
                 ELSE IF users[userId].stripeAccountId /\ details_submitted
                      THEN Finish(me, "AlreadyConnected")
                 ELSE [me EXCEPT !.pc = "saUpdate"])
    /\ UNCHANGED <<users, txs, stripeEvents, credited, now>>

\* lines 295-329: the connected account is created and its id written to
\* the user document
AccountUpdate(p) ==
    /\ proc[p].pc = "saUpdate"
    /\ ~HeldByOther(p, proc[p].s)
    /\ users' = [users EXCEPT ![proc[p].s].stripeAccountId = TRUE]
    /\ Step(p, MarkDirty(proc, p, {proc[p].s}),
            Finish([proc[p] EXCEPT !.wrote = TRUE], "ok"))
    /\ UNCHANGED <<txs, stripeEvents, credited, nops, now>>

\* ------------------------------------------------- POST /payments/webhook
\* routes/payments.ts line 233
AlreadyProcessedNever(ev) == FALSE
AlreadyProcessed(ev) == ev \in DOMAIN stripeEvents /\ stripeEvents[ev]

\* lines 226-237: the event is looked up by its id
WebhookReceive(p, kind, pi) ==
    /\ Begin(p, "webhook")
    /\ LET ev == EventId(kind, pi)
           me == [Idle EXCEPT !.op = "webhook", !.kind = kind, !.ref = pi,
                    !.dup = ev \in DOMAIN stripeEvents /\ stripeEvents[ev]]
       IN Step(p, proc, IF AlreadyProcessed(ev) THEN Finish(me, "received")
            ELSE [me EXCEPT !.pc = "whStore"])
    /\ UNCHANGED <<users, txs, stripeEvents, credited, now>>

\* lines 249-268: the switch on event.type; the types it has no case for
\* (payout.paid and payout.failed among them) are logged and skipped
DispatchNone(kind) == "whMark"
Dispatch(kind) ==
    IF kind = "succeeded" THEN "psFind"
    ELSE IF kind = "failed" THEN "pfFind"
    ELSE "whMark"

\* mongo-init.js line 47: the unique index on stripeEventId
UniqueViolationNever(ev) == FALSE
UniqueViolation(ev) == ev \in DOMAIN stripeEvents

\* lines 239-247: stripeEventId is unique, a second create throws and the
\* catch at lines 282-293 answers 400
WebhookStore(p) ==
    /\ proc[p].pc = "whStore"
    /\ LET me == proc[p]
           ev == EventId(me.kind, me.ref)
       IN IF UniqueViolation(ev)
          THEN /\ Step(p, proc, Finish(me, "error400"))
               /\ UNCHANGED <<stripeEvents, credited>>
          ELSE /\ stripeEvents' = (ev :> FALSE) @@ stripeEvents
               /\ credited' = IF ev \in DOMAIN credited
                               THEN credited
                               ELSE (ev :> Zero) @@ credited
               /\ Step(p, proc, [me EXCEPT !.pc = Dispatch(me.kind)])
    /\ UNCHANGED <<users, txs, nops, now>>

\* findFirst({stripePaymentIntentId, status: 'PENDING'}): 0 when none
FindPendingAnyStatus(pi) ==
    LET hits == {i \in DOMAIN txs : txs[i].pi = pi}
    IN IF hits = {} THEN 0 ELSE CHOOSE i \in hits : \A j \in hits : i <= j
FindPending(pi) ==
    LET hits == {i \in DOMAIN txs : txs[i].pi = pi /\ txs[i].status = "PENDING"}
    IN IF hits = {} THEN 0 ELSE CHOOSE i \in hits : \A j \in hits : i <= j

\* processSuccessfulPayment lines 345-360 / processFailedPayment 401-413
PaymentFind(p) ==
    /\ proc[p].pc \in {"psFind", "pfFind"}
    /\ LET me == proc[p]
           t == FindPending(me.ref)
       IN Step(p, proc, IF t = 0 THEN [me EXCEPT !.pc = "whMark"]
            ELSE [me EXCEPT !.tx = t, !.num = txs[t].amount,
                            !.r = txs[t].receiverId,
                            !.pc = IF me.pc = "psFind" THEN "psUpdate"
                                                       ELSE "pfUpdate"])
    /\ UNCHANGED <<users, txs, stripeEvents, credited, nops, now>>

\* processSuccessfulPayment lines 362-366: update where id
SuccessUpdate(p) ==
    /\ proc[p].pc = "psUpdate"
    /\ txs' = [txs EXCEPT ![proc[p].tx].status = "COMPLETED"]
    /\ proc' = [proc EXCEPT ![p].pc = "psCredit", ![p].wrote = TRUE]
    /\ last' = last
    /\ UNCHANGED <<users, stripeEvents, credited, nops, now>>

\* processSuccessfulPayment lines 368-378: increment of the receiver
SuccessCredit(p) ==
    /\ proc[p].pc = "psCredit"
    /\ LET me == proc[p]
       IN IF me.r # NoUser
          THEN /\ ~HeldByOther(p, me.r)
               /\ users' = [users EXCEPT ![me.r].balance = DAdd(@, me.num)]
               /\ credited' = [credited EXCEPT
                     ![EventId(me.kind, me.ref)] = DAdd(@, me.num)]
               /\ Step(p, MarkDirty(proc, p, {me.r}),
                       [me EXCEPT !.pc = "whMark"])
          ELSE /\ Step(p, proc, [me EXCEPT !.pc = "whMark"])
               /\ UNCHANGED <<users, credited>>
    /\ UNCHANGED <<txs, stripeEvents, nops, now>>

\* processSuccessfulPayment lines 368-392: the user update throws (the
\* store is unavailable, the write times out) or the process stops; the
\* status written at lines 362-366 stays, the webhook answers 400
SuccessCreditFails(p) ==
    /\ proc[p].pc = "psCredit"
    /\ Step(p, proc, Finish(proc[p], "error400"))
    /\ UNCHANGED <<users, txs, stripeEvents, credited, nops, now>>

\* processFailedPayment lines 415-419: update where id
FailedUpdate(p) ==
    /\ proc[p].pc = "pfUpdate"
    /\ txs' = [txs EXCEPT ![proc[p].tx].status = "FAILED"]
    /\ proc' = [proc EXCEPT ![p].pc = "whMark", ![p].wrote = TRUE]
    /\ last' = last
    /\ UNCHANGED <<users, stripeEvents, credited, nops, now>>

\* routes/payments.ts lines 270-281
WebhookMark(p) ==
    /\ proc[p].pc = "whMark"
    /\ stripeEvents' =
          [stripeEvents EXCEPT ![EventId(proc[p].kind, proc[p].ref)] = TRUE]
    /\ Step(p, proc, Finish(proc[p], "received"))
    /\ UNCHANGED <<users, txs, credited, nops, now>>

\* ------------------------------------------------------------ userService
Patched(patch, current) ==
    IF patch = "keep" THEN current ELSE patch = "true"

\* createUser lines 34-42: the lookup by mobile number
createUser(p, req) ==
    /\ Begin(p, "createUser")
    /\ LET me == [Idle EXCEPT !.op = "createUser", !.s = NewUser,
                              !.pg = req.g, !.pr = req.r, !.pa = req.a]
       IN Step(p, proc,
               IF Exists(NewUser) THEN Finish(me, "MOBILE_NUMBER_EXISTS")
               ELSE [me EXCEPT !.pc = "cuAlias"])
    /\ UNCHANGED <<users, txs, stripeEvents, credited, now>>

\* createUser lines 44-56: the lookup by alias, then the check of the tip
\* preferences
CreateUserAlias(p) ==
    /\ proc[p].pc = "cuAlias"
    /\ LET me == proc[p]
       IN Step(p, proc,
               IF AliasTaken(me.pa, {}) THEN Finish(me, "ALIAS_EXISTS")
               ELSE IF me.pg # "true" /\ me.pr # "true"
                    THEN Finish(me, "INVALID_TIP_PREFERENCES")
               ELSE [me EXCEPT !.pc = "cuCreate"])
    /\ UNCHANGED <<users, txs, stripeEvents, credited, nops, now>>

\* authService.verifyCode (part_006 lines 94-97): the lookup by mobile
\* number of a caller whose code was valid; a new user gets the alias ''
verifyCode(p) ==
    /\ Begin(p, "verifyCode")
    /\ LET me == [Idle EXCEPT !.op = "verifyCode", !.s = NewUser,
                              !.pg = "true", !.pr = "true", !.pa = ""]
       IN Step(p, proc,
               IF Exists(NewUser) THEN Finish(me, "ok")
               ELSE [me EXCEPT !.pc = "cuCreate"])
    /\ UNCHANGED <<users, txs, stripeEvents, credited, now>>

\* createUser lines 58-90 and verifyCode lines 99-112: the user document
\* is inserted; mobileNumber and alias are unique (mongo-init.js lines 33
\* and 34).  createUser has asked Stripe for a customer and goes on
\* without one when that fails.
UserCreate(p) ==
    /\ proc[p].pc = "cuCreate"
    /\ LET me == proc[p]
       IN IF Exists(me.s) \/ AliasTaken(me.pa, {})
          THEN /\ Step(p, proc, Finish(me, "UniqueViolation"))
               /\ UNCHANGED users
          ELSE \E customer \in BOOLEAN :
                 /\ me.op = "verifyCode" => ~customer
                 /\ users' = (me.s :> NewUserDoc(me.pa, me.pg = "true",
                                                 me.pr = "true", customer))
                               @@ users
                 /\ Step(p, proc, Finish([me EXCEPT !.wrote = TRUE], "ok"))
    /\ UNCHANGED <<txs, stripeEvents, credited, nops, now>>

\* updateUser lines 192-208: the read of the user and the check of the
\* tip preferences the request would leave
FlagsCheck(me) ==
    IF ~Exists(me.s) THEN Finish(me, "USER_NOT_FOUND")
    ELSE IF /\ ~Patched(me.pg, users[me.s].canGiveTips)
            /\ ~Patched(me.pr, users[me.s].canReceiveTips)
         THEN Finish(me, "INVALID_TIP_PREFERENCES")
    ELSE [me EXCEPT !.pc = "updWrite"]

\* updateUser lines 169-209, up to its first read: the lookup of the
\* alias when the request carries one that is not empty (line 174 tests
\* userData.alias for truth), else the read of the user
updateUser(p, id, patch) ==
    /\ Begin(p, "updateUser")
    /\ LET me == [Idle EXCEPT !.op = "updateUser", !.s = id,
                              !.pg = patch.g, !.pr = patch.r,
                              !.pa = patch.a]
           touches == patch.g # "keep" \/ patch.r # "keep"
       IN Step(p, proc,
               IF patch.a # "keep" /\ patch.a # ""
               THEN IF AliasTaken(patch.a, {id})
                    THEN Finish(me, "ALIAS_EXISTS")
                    ELSE [me EXCEPT !.pc = IF touches THEN "updFlags"
                                           ELSE "updWrite"]
               ELSE IF touches THEN FlagsCheck(me)
               ELSE [me EXCEPT !.pc = "updWrite"])
    /\ UNCHANGED <<users, txs, stripeEvents, credited, now>>

\* updateUser lines 187-209, after the lookup of the alias
UpdateFlags(p) ==
    /\ proc[p].pc = "updFlags"
    /\ Step(p, proc, FlagsCheck(proc[p]))
    /\ UNCHANGED <<users, txs, stripeEvents, credited, nops, now>>

\* updateUser lines 211-214: the fields of the request are written; alias
\* is unique (mongo-init.js line 34)
UpdateWrite(p) ==
    /\ proc[p].pc = "updWrite"
    /\ LET me == proc[p]
       IN IF ~Exists(me.s)
          THEN /\ Step(p, proc, Finish(me, "RecordNotFound"))
               /\ UNCHANGED users
          ELSE /\ ~HeldByOther(p, me.s)
               /\ IF me.pa # "keep" /\ AliasTaken(me.pa, {me.s})
                  THEN /\ Step(p, proc, Finish(me, "UniqueViolation"))
                       /\ UNCHANGED users
                  ELSE /\ users' = [users EXCEPT
                             ![me.s].canGiveTips = Patched(me.pg, @),
                             ![me.s].canReceiveTips = Patched(me.pr, @),
                             ![me.s].alias =
                                 IF me.pa = "keep" THEN @ ELSE me.pa]
                       /\ Step(p, MarkDirty(proc, p, {me.s}),
                               Finish(me, "ok"))
    /\ UNCHANGED <<txs, stripeEvents, credited, nops, now>>

\* updateAvatar lines 235-239: one update of the user document
updateAvatar(p, id) ==
    /\ Begin(p, "updateAvatar")
    /\ LET me == [Idle EXCEPT !.op = "updateAvatar", !.s = id]
       IN IF ~Exists(id)
          THEN /\ Step(p, proc, Finish(me, "RecordNotFound"))
               /\ UNCHANGED users
          ELSE /\ ~HeldByOther(p, id)
               /\ users' = [users EXCEPT ![id].avatarUrl = TRUE]
               /\ Step(p, MarkDirty(proc, p, {id}),
                       Finish([me EXCEPT !.wrote = TRUE], "ok"))
    /\ UNCHANGED <<txs, stripeEvents, credited, now>>

\* ----------------------------------- transactionService (part_005), reads
\* line 50: at most 100 rows per page
MaxHistoryLimit == 100

Min(S) == CHOOSE x \in S : \A y \in S : x <= y

\* lines 49-51
validatedPage(page) == Max({1, page})
validatedLimit(limit) == Min({Max({1, limit}), MaxHistoryLimit})
skipOf(page, limit) == (validatedPage(page) - 1) * validatedLimit(limit)

\* where: { OR: [{ senderId: userId }, { receiverId: userId }] }
Matching(log, userId) ==
    {i \in DOMAIN log :
        log[i].senderId = userId \/ log[i].receiverId = userId}

\* the millisecond in which row i was inserted
CreatedAt(log, i) == log[i].createdAt

\* the rows of S that may come first: none of S is younger
Newest(log, S) ==
    {i \in S : \A j \in S : CreatedAt(log, j) <= CreatedAt(log, i)}

\* orderBy: { createdAt: 'desc' } and nothing else: the store may return
\* rows of equal createdAt in any order, and differently per query
RECURSIVE OrdersOf(_, _)
OrdersOf(log, S) ==
    IF S = {} THEN {<<>>}
    ELSE UNION {{<<i>> \o rest : rest \in OrdersOf(log, S \ {i})} :
                   i \in Newest(log, S)}

Orders(log, userId) == OrdersOf(log, Matching(log, userId))

\* skip / take (lines 80-81) applied to the ordered result
PageOf(ord, skip, take) ==
    IF skip >= Len(ord) THEN <<>>
    ELSE SubSeq(ord, skip + 1, Min({skip + take, Len(ord)}))

\* line 90: Math.ceil(totalCount / validatedLimit)
totalPagesFloor(totalCount, limit) == totalCount \div limit
totalPages(totalCount, limit) == (totalCount + limit - 1) \div limit

\* lines 55-82: prisma.transaction.findMany
FindRead(me, ord) ==
    [me EXCEPT !.rows = PageOf(ord, skipOf(me.page, me.limit), me.take),
               !.ver = Len(txs)]

\* lines 83-87: prisma.transaction.count
CountRead(me) ==
    [me EXCEPT !.totalCount = Cardinality(Matching(txs, me.s))]

\* lines 123-130: the result
HistoryResult(me) ==
    [me EXCEPT !.totalPages = totalPages(me.totalCount, me.take),
               !.hasNextPage =
                   me.currentPage < totalPages(me.totalCount, me.take),
               !.hasPreviousPage = me.currentPage > 1]

\* getTransactionHistory lines 43-88: the two queries are issued together
\* (Promise.all) and the store serves them one after the other, in either
\* order; this is the first of the two
getTransactionHistory(p, userId, page, limit) ==
    /\ Begin(p, "history")
    /\ LET me == [Idle EXCEPT !.op = "history", !.s = userId,
                              !.page = page, !.limit = limit,
                              !.currentPage = validatedPage(page),
                              !.take = validatedLimit(limit),
                              !.pc = "histRest"]
       IN \/ \E ord \in Orders(txs, userId) :
               Step(p, proc, [FindRead(me, ord) EXCEPT !.kind = "find"])
          \/ Step(p, proc, [CountRead(me) EXCEPT !.kind = "count"])
    /\ UNCHANGED <<users, txs, stripeEvents, credited, now>>

\* the second of the two queries, then lines 90-130
HistoryRest(p) ==
    /\ proc[p].pc = "histRest"
    /\ LET me == proc[p]
       IN IF me.kind = "find"
          THEN Step(p, proc, Finish(HistoryResult(CountRead(me)), "ok"))
          ELSE \E ord \in Orders(txs, me.s) :
                  Step(p, proc, Finish(HistoryResult(FindRead(me, ord)), "ok"))
    /\ UNCHANGED <<users, txs, stripeEvents, credited, nops, now>>

\* a millisecond passes; the clock is read only when a row is inserted, so
\* only a millisecond in which a row was inserted is told from the next
Tick ==
    /\ \/ \E i \in DOMAIN txs : txs[i].createdAt = now
       \/ \E p \in Procs : \E i \in DOMAIN proc[p].ins :
             proc[p].ins[i].createdAt = now
    /\ now' = now + 1
    /\ UNCHANGED <<users, txs, stripeEvents, credited, proc, last, nops>>

\* ---------------------------------------------------------- specification
\* The events delivered are those of the open intent, of the intents and
\* payouts made during the run, and of an intent the ledger does not know.
\* The processor settles a payment intent only after the client has
\* confirmed it with the client secret, which createPaymentIntent returns
\* after it has inserted the row: no event precedes the row of its intent.
OldRefs == {SettledRef[u] : u \in InitUsers}

KnownPis ==
    {ForeignPi} \cup (({txs[i].pi : i \in DOMAIN txs} \ {NoRef}) \ OldRefs)

KnownPayouts == {txs[i].po : i \in DOMAIN txs} \ {NoRef}

Next ==
    \/ \E p \in Procs, q \in TipRequests : TipRoute(p, q[1], q[2], q[3])
    \/ \E p \in Procs : SendTipUpdateSender(p)
    \/ \E p \in Procs : SendTipUpdateReceiver(p)
    \/ \E p \in Procs : SendTipRollback(p)
    \/ \E p \in Procs : SendTipCreateSend(p)
    \/ \E p \in Procs : SendTipCreateReceive(p)
    \/ \E p \in Procs : SendTipCommit(p)
    \/ \E p \in Procs, u \in RecordedUsers, a \in RecordedAmounts,
          pi \in FundingRefs : recordFunding(p, u, a, pi)
    \/ \E p \in Procs : RecordFundingCreate(p)
    \/ \E p \in Procs : RecordFundingCommit(p)
    \/ \E p \in Procs, u \in RecordedUsers, a \in PayoutAmounts,
          po \in PayoutRefs : recordWithdrawal(p, u, a, po)
    \/ \E p \in Procs : WithdrawalUpdate(p)
    \/ \E p \in Procs : WithdrawalCreate(p)
    \/ \E p \in Procs : WithdrawalCommit(p)
    \/ \E p \in Procs, u \in InitUsers, a \in FundAmounts :
          createPaymentIntent(p, u, a)
    \/ \E p \in Procs : IntentCustomer(p)
    \/ \E p \in Procs : IntentIssue(p)
    \/ \E p \in Procs : IntentInsert(p)
    \/ \E p \in Procs, u \in InitUsers, a \in PayoutAmounts :
          createPayout(p, u, a)
    \/ \E p \in Procs : PayoutIssue(p)
    \/ \E p \in Procs : PayoutDebit(p)
    \/ \E p \in Procs, u \in AccountUsers : setupConnectedAccount(p, u)
    \/ \E p \in Procs : AccountUpdate(p)
    \/ \E p \in Procs, k \in Kinds, pi \in KnownPis : WebhookReceive(p, k, pi)
    \/ \E p \in Procs, k \in PayoutKinds, po \in KnownPayouts :
          WebhookReceive(p, k, po)
    \/ \E p \in Procs : WebhookStore(p)
    \/ \E p \in Procs : PaymentFind(p)
    \/ \E p \in Procs : SuccessUpdate(p)
    \/ \E p \in Procs : SuccessCredit(p)
    \/ \E p \in Procs : SuccessCreditFails(p)
    \/ \E p \in Procs : FailedUpdate(p)
    \/ \E p \in Procs : WebhookMark(p)
    \/ \E p \in Procs, req \in NewUserRequests : createUser(p, req)
    \/ \E p \in Procs : CreateUserAlias(p)
    \/ \E p \in Procs : verifyCode(p)
    \/ \E p \in Procs : UserCreate(p)
    \/ \E p \in Procs, u \in PatchedUsers, patch \in Patches :
          updateUser(p, u, patch)
    \/ \E p \in Procs : UpdateFlags(p)
    \/ \E p \in Procs : UpdateWrite(p)
    \/ \E p \in Procs, u \in AvatarUsers : updateAvatar(p, u)

Spec == Init /\ [][Next]_vars

\* every handler that can take a step eventually takes one
FairSpec == Spec /\ WF_vars(Next)

\* --------------------------------------- the history reader and two tippers
\* databases a run of the service leaves behind: both users funded, then
\* tips between them and payment intents of u1 awaiting settlement, some
\* of them inserted within the same millisecond
TipPairAt(senderId, receiverId, amount, t) ==
    <<[type |-> "SEND_TIP", amount |-> amount, senderId |-> senderId,
       receiverId |-> receiverId, status |-> "COMPLETED", pi |-> NoRef,
       po |-> NoRef, createdAt |-> t],
      [type |-> "RECEIVE_TIP", amount |-> amount, senderId |-> senderId,
       receiverId |-> receiverId, status |-> "COMPLETED", pi |-> NoRef,
       po |-> NoRef, createdAt |-> t]>>

IntentAt(userId, pi, t) ==
    <<[type |-> "ADD_FUNDS", amount |-> Parsed[InitIntentMills],
       senderId |-> NoUser, receiverId |-> userId, status |-> "PENDING",
       pi |-> pi, po |-> NoRef, createdAt |-> t]>>

HistoryLedgers ==
    LET funded == Stamped(InitRows(InitUsers, FALSE))
        tip == Parsed[InitFundMills]
    IN {funded \o TipPairAt("u1", "u2", tip, 3),
        funded \o IntentAt("u1", OpenRef, 3) \o IntentAt("u1", OpenRef + 1, 3)}

\* what the ledger says a user holds
RECURSIVE LedgerBalance(_, _, _)
LedgerBalance(log, u, n) ==
    IF n = 0 THEN Zero
    ELSE IF log[n].status # "COMPLETED" THEN LedgerBalance(log, u, n - 1)
    ELSE IF log[n].type \in {"ADD_FUNDS", "RECEIVE_TIP"}
            /\ log[n].receiverId = u
         THEN DAdd(LedgerBalance(log, u, n - 1), log[n].amount)
    ELSE IF log[n].type \in {"SEND_TIP", "WITHDRAW"} /\ log[n].senderId = u
         THEN DSub(LedgerBalance(log, u, n - 1), log[n].amount)
    ELSE LedgerBalance(log, u, n - 1)

\* userId, page, limit
HistoryRequests ==
    {<<"u1", 1, 1>>, <<"u1", 2, 1>>, <<NewUser, 0, 0>>, <<"u2", 1, 101>>}

HistoryTips == {<<"u1", "u2", 20000>>, <<"u2", "u1", 20000>>}

HistoryInit ==
    /\ txs \in HistoryLedgers
    /\ users = [u \in InitUsers |->
                  [InitUser(u, TRUE, FALSE) EXCEPT
                      !.balance = LedgerBalance(txs, u, Len(txs))]]
    /\ stripeEvents = [ev \in {EventId("succeeded", SettledRef[u]) :
                                  u \in InitUsers} |-> TRUE]
    /\ credited = [ev \in {EventId("succeeded", SettledRef[u]) :
                              u \in InitUsers} |-> Parsed[InitFundMills]]
    /\ now = txs[Len(txs)].createdAt
    /\ proc = [p \in Procs |-> Idle]
    /\ last = Idle
    /\ nops = 0

HistoryNext ==
    \/ \E p \in Procs, q \in HistoryRequests :
          getTransactionHistory(p, q[1], q[2], q[3])
    \/ \E p \in Procs : HistoryRest(p)
    \/ \E p \in Procs, q \in HistoryTips : TipRoute(p, q[1], q[2], q[3])
    \/ \E p \in Procs : SendTipUpdateSender(p)
    \/ \E p \in Procs : SendTipUpdateReceiver(p)
    \/ \E p \in Procs : SendTipRollback(p)
    \/ \E p \in Procs : SendTipCreateSend(p)
    \/ \E p \in Procs : SendTipCreateReceive(p)
    \/ \E p \in Procs : SendTipCommit(p)
    \/ Tick

HistorySpec == HistoryInit /\ [][HistoryNext]_vars

\* ------------------------------------------------- the tip route alone
TipNext ==
    \/ \E p \in Procs, q \in TipRequests : TipRoute(p, q[1], q[2], q[3])
    \/ \E p \in Procs : SendTipUpdateSender(p)
    \/ \E p \in Procs : SendTipUpdateReceiver(p)
    \/ \E p \in Procs : SendTipRollback(p)
    \/ \E p \in Procs : SendTipCreateSend(p)
    \/ \E p \in Procs : SendTipCreateReceive(p)
    \/ \E p \in Procs : SendTipCommit(p)

\* every request handler runs to its end
TipFairSpec == Init /\ [][TipNext]_vars /\ WF_vars(TipNext)

\* ---------------------- sendTip as a function, next to the profile updates
\* tips that come through the route, sendTip called by any other caller,
\* and the updates that change the tip flags
SendTipNext ==
    \/ TipNext
    \/ \E p \in Procs, q \in SendTipCalls : SendTipCall(p, q[1], q[2], q[3])
    \/ \E p \in Procs, u \in PatchedUsers, patch \in Patches :
          updateUser(p, u, patch)
    \/ \E p \in Procs : UpdateFlags(p)
    \/ \E p \in Procs : UpdateWrite(p)

SendTipSpec == Init /\ [][SendTipNext]_vars

\* ------------------------------------------------------------ properties
Terminal == {"COMPLETED", "FAILED"}

\* mills per dollar
Dollar == 10 * 100

\* the positions of a handler inside a sendTip transaction
TipOpen ==
    {"tipUpdate1", "tipUpdate2", "tipCreate1", "tipCreate2", "tipCommit",
     "tipAbort"}

\* process p commits its sendTip transaction in this step
TipCommits(p) == proc[p].pc = "tipCommit" /\ proc'[p].pc = "idle"

\* C1: no user's stored balance is ever negative.
NoNegativeBalance == \A u \in DOMAIN users : ~users[u].balance.neg

\* C2: a sendTip whose rival (same sender, same balance read, amounts that
\* the balance covers one at a time but not together) has committed fails
\* with the insufficient-balance error.
DoubleSpendExclusion ==
    (last.op = "tip" /\ last.rival) => last.res = "InsufficientBalance"

\* the part of C2 the store guarantees: the rivals never both commit
RivalsNeverBothCommit == (last.op = "tip" /\ last.rival) => last.res # "ok"

\* C3: a sendTip that commits returns balances whose sum, as the program
\* adds, is the sum of the two stored balances before the commit, and
\* stores exactly those balances.
Conservation ==
    [][\A p \in Procs : TipCommits(p) =>
          /\ DAdd(last'.sNew, last'.rNew)
               = DAdd(users[last'.s].balance, users[last'.r].balance)
          /\ users'[last'.s].balance = last'.sNew
          /\ users'[last'.r].balance = last'.rNew]_vars

\* the part of C3 that holds: the balances stored are the ones returned
StoredAsReturned ==
    [][\A p \in Procs : TipCommits(p) =>
          /\ users'[last'.s].balance = last'.sNew
          /\ users'[last'.r].balance = last'.rNew]_vars

\* C4: a delivery of an event whose record is already processed is
\* acknowledged without any ledger write, and the balance credit made for
\* one event id is the transaction amount, once: never more, and exactly
\* that once the delivery that found the Pending row is acknowledged.
IdempotentSettlement ==
    /\ (last.op = "webhook" /\ last.dup) =>
          (last.res = "received" /\ ~last.wrote)
    /\ \A ev \in DOMAIN credited :
          credited[ev] # Zero =>
             \E i \in DOMAIN txs :
                /\ txs[i].pi = ev[2] /\ txs[i].type = "ADD_FUNDS"
                /\ credited[ev] = txs[i].amount
    /\ (last.op = "webhook" /\ last.kind = "succeeded" /\ last.tx # 0
          /\ last.res = "received") =>
          credited[EventId(last.kind, last.ref)] = txs[last.tx].amount

IdempotentSettlementWitness ==
    /\ last.op = "webhook" /\ last.kind = "succeeded" /\ last.dup
    /\ DLess(Zero, credited[EventId(last.kind, last.ref)])

\* C5: a row whose status is COMPLETED or FAILED is never changed again.
TerminalImmutability ==
    [][\A i \in DOMAIN txs :
          txs[i].status \in Terminal => txs'[i] = txs[i]]_vars

\* C6: SEND_TIP and RECEIVE_TIP rows come in pairs that agree on sender,
\* receiver and amount and are COMPLETED; a committing sendTip appends one
\* such pair carrying the rounded amount, and no other step adds a tip row.
IsTip(row) == row.type \in {"SEND_TIP", "RECEIVE_TIP"}

TipCount(log) == Cardinality({i \in DOMAIN log : IsTip(log[i])})

Paired ==
    /\ Cardinality({i \in DOMAIN txs : txs[i].type = "SEND_TIP"})
         = Cardinality({i \in DOMAIN txs : txs[i].type = "RECEIVE_TIP"})
    /\ \A i \in DOMAIN txs :
          /\ IsTip(txs[i]) => txs[i].status = "COMPLETED"
          /\ txs[i].type = "SEND_TIP" =>
                /\ i + 1 \in DOMAIN txs
                /\ [txs[i + 1] EXCEPT !.createdAt = txs[i].createdAt]
                      = [txs[i] EXCEPT !.type = "RECEIVE_TIP"]
          /\ txs[i].type = "RECEIVE_TIP" =>
                /\ i - 1 \in DOMAIN txs
                /\ txs[i - 1].type = "SEND_TIP"

PairAppended ==
    IF \E p \in Procs : TipCommits(p)
    THEN /\ Len(txs') = Len(txs) + 2
         /\ SubSeq(txs', 1, Len(txs)) = txs
         /\ [txs'[Len(txs) + 1] EXCEPT !.createdAt = now] =
               Row("SEND_TIP", round2(Parse(last'.amt)), last'.s, last'.r,
                   "COMPLETED", NoRef, NoRef)
         /\ [txs'[Len(txs) + 2] EXCEPT !.createdAt = now] =
               Row("RECEIVE_TIP", round2(Parse(last'.amt)), last'.s, last'.r,
                   "COMPLETED", NoRef, NoRef)
    ELSE TipCount(txs') = TipCount(txs)

\* C6 as one formula: the ledger is paired in every state, and a tip that
\* commits appends exactly its SEND_TIP row and its RECEIVE_TIP row.
TipPairing == []Paired /\ [][PairAppended]_vars

TipPairingWitness ==
    /\ last.op = "tip" /\ last.res = "ok"
    /\ TipCount(txs) = 2

\* C7: a sendTip that fails for a business-rule reason has written nothing,
\* and the step in which it fails leaves balances and rows as they were.
TipBusinessErrors ==
    {"ValidationError", "AmountNotPositive", "AmountTooLarge",
     "SenderNotFound", "ReceiverNotFound", "SenderNotPermitted",
     "ReceiverNotPermitted", "InsufficientBalance"}

FailedTip == last.op = "tip" /\ last.res \in TipBusinessErrors

\* C7 as one formula: a tip that ends in a business error has written
\* nothing, neither a balance nor a row.
FailedTipWritesNothing ==
    /\ [](FailedTip => ~last.wrote)
    /\ [][(last' # last /\ FailedTip') =>
             (users' = users /\ txs' = txs)]_vars

\* a tip to a user that does not exist has failed after another tip was
\* committed
FailedTipWitness ==
    /\ last.op = "tip" /\ last.res = "ReceiverNotFound"
    /\ ~Exists(last.r) /\ Exists(last.s)
    /\ TipCount(txs) = 2

\* C8: a sendTip whose sender is its receiver fails with the self-tip
\* error and writes nothing; no such call gets as far as a transaction.
SelfTipRejected ==
    /\ (last.op = "tip" /\ last.s = last.r) =>
          (last.res = "SelfTip" /\ ~last.wrote)
    /\ \A p \in Procs : proc[p].op = "tip" => proc[p].s # proc[p].r

\* C9: sendTip rejects the amount as invalid exactly when the amount
\* rounded to cents (half away from zero) is not in (0, 500.00].
RoundHalfAway(amount) ==
    IF amount >= 0 THEN ((amount + 5) \div 10) * 10
    ELSE 0 - (((0 - amount) + 5) \div 10) * 10

\* C9 as one formula: the amount is rejected exactly when its rounding to
\* cents is outside (0, 500.00].
TipAmountBound ==
    (last.op = "tip" /\ last.res # "SelfTip") =>
       (last.res \in {"ValidationError", "AmountNotPositive", "AmountTooLarge"}
          <=> ~(0 < RoundHalfAway(last.amt)
                /\ RoundHalfAway(last.amt) <= MaxTipDollars * Dollar))

\* C10: a sendTip that got as far as the permission checks commits only if
\* the snapshot shows canGiveTips for the sender and canReceiveTips for the
\* receiver, and otherwise reports the sender first, then the receiver.
TipReachedPermissions ==
    /\ last.op = "tip"
    /\ last.res \notin {"SelfTip", "ValidationError", "AmountNotPositive",
                        "AmountTooLarge", "SenderNotFound",
                        "ReceiverNotFound"}

\* C10 as one formula: a tip succeeds only with both permissions, and the
\* sender's missing permission is reported before the receiver's.
TipPermissions ==
    /\ TipReachedPermissions =>
          /\ last.res = "ok" => (last.sGive /\ last.rRecv)
          /\ ~last.sGive => last.res = "SenderNotPermitted"
          /\ (last.sGive /\ ~last.rRecv) => last.res = "ReceiverNotPermitted"
    /\ \A p \in Procs :
          proc[p].pc \in TipOpen => (proc[p].sGive /\ proc[p].rRecv)

TipPermissionsWitness ==
    /\ last.op = "tip" /\ last.res = "ReceiverNotPermitted"
    /\ last.sGive /\ ~last.rRecv

\* C11: a transaction whose status is FAILED has had no amount added to a
\* balance on its behalf: no success event for its payment intent has
\* credited anything.
FailedNeverCredited ==
    \A i \in DOMAIN txs :
       (txs[i].status = "FAILED" /\ txs[i].pi # NoRef) =>
          \A ev \in DOMAIN credited :
             ev[2] = txs[i].pi => credited[ev] = Zero

\* ------------------------------------------ externally settled rows
Settled(row) == row.type \in {"ADD_FUNDS", "WITHDRAW"}

\* the step is the status update of row i by one of the two reconciler
\* functions, which had found the row PENDING
ReconcilerStep(i) ==
    \E p \in Procs :
       /\ proc[p].pc \in {"psUpdate", "pfUpdate"}
       /\ proc[p].tx = i
       /\ proc'[p].pc # proc[p].pc

\* which operation a step that inserts a row belongs to
ByCreatePaymentIntent ==
    \E p \in Procs : proc[p].pc = "cpInsert" /\ proc'[p].pc = "idle"
ByCreatePayout ==
    \E p \in Procs : proc[p].pc = "poIssue" /\ proc'[p].pc = "poDebit"
ByRecordFunding ==
    \E p \in Procs : proc[p].pc = "rfCommit" /\ proc'[p].pc = "idle"
ByRecordWithdrawal ==
    \E p \in Procs : proc[p].pc = "wdCommit" /\ proc'[p].pc = "idle"

\* C12 as stated: every ADD_FUNDS or WITHDRAW row is PENDING when it is
\* inserted, and a row's status changes only in a step of
\* processSuccessfulPayment or processFailedPayment.
PendingFirst ==
    [][/\ \A i \in DOMAIN txs' \ DOMAIN txs :
             Settled(txs'[i]) => txs'[i].status = "PENDING"
       /\ \A i \in DOMAIN txs :
             txs'[i].status # txs[i].status => ReconcilerStep(i)]_vars

\* C12, amended: the rows inserted by createPaymentIntent and createPayout
\* are PENDING; an ADD_FUNDS or WITHDRAW row inserted with another status
\* is a COMPLETED row of recordFunding or recordWithdrawal; and the status
\* of a row changes only in a step of processSuccessfulPayment or
\* processFailedPayment that had found the row PENDING, to COMPLETED or
\* FAILED.
SettlementTransitions ==
    [][/\ \A i \in DOMAIN txs' \ DOMAIN txs :
             Settled(txs'[i]) =>
                /\ (ByCreatePaymentIntent \/ ByCreatePayout) =>
                      txs'[i].status = "PENDING"
                /\ txs'[i].status # "PENDING" =>
                      /\ txs'[i].status = "COMPLETED"
                      /\ ByRecordFunding \/ ByRecordWithdrawal
       /\ \A i \in DOMAIN txs :
             txs'[i].status # txs[i].status =>
                /\ ReconcilerStep(i)
                /\ txs'[i].status \in Terminal]_vars

\* a success event has completed the row it found PENDING, next to a row
\* that recordFunding or recordWithdrawal inserted as COMPLETED
SettlementTransitionsWitness ==
    /\ last.op = "webhook" /\ last.kind = "succeeded" /\ last.wrote
    /\ last.tx \in DOMAIN txs
    /\ txs[last.tx].status = "COMPLETED"
    /\ \E j \in DOMAIN txs \ {last.tx} :
          /\ Settled(txs[j]) /\ txs[j].status = "COMPLETED"
          /\ txs[j].type = "WITHDRAW" \/ txs[j].pi = txs[last.tx].pi

\* ------------------------------------------------- ledger consistency
\* what a row contributes to the balance of user u according to the ledger
Signed(row, u) ==
    IF row.status # "COMPLETED" THEN Zero
    ELSE IF row.type \in {"ADD_FUNDS", "RECEIVE_TIP"} /\ row.receiverId = u
         THEN row.amount
    ELSE IF row.type \in {"SEND_TIP", "WITHDRAW"} /\ row.senderId = u
         THEN Neg(row.amount)
    ELSE Zero

\* the ledger total of user u, as a real number
RECURSIVE NetUpTo(_, _, _)
NetUpTo(log, u, n) ==
    IF n = 0 THEN Zero
    ELSE IF Signed(log[n], u) = Zero THEN NetUpTo(log, u, n - 1)
    ELSE ExactAdd(NetUpTo(log, u, n - 1), Signed(log[n], u))

Net(log, u) == NetUpTo(log, u, Len(log))

\* C13: every user's balance is the COMPLETED credits minus the COMPLETED
\* debits of the ledger (a user starts with balance 0 and no rows).
LedgerConsistency ==
    \A u \in DOMAIN users : users[u].balance = Net(txs, u)

\* ---------------------------------------------------- history queries
IsHistory == last.op = "history"

\* a step of getTransactionHistory
HistoryStep ==
    \E p \in Procs :
       \/ proc[p].pc = "histRest" /\ proc'[p].pc = "idle"
       \/ proc[p].pc = "idle" /\ proc'[p].pc = "histRest"

ClampedLimit(limit) ==
    IF limit < 1 THEN 1 ELSE IF limit > 100 THEN 100 ELSE limit

\* C14: a finished getTransactionHistory reports page' = max(1, page), at
\* most limit' = min(max(1, limit), 100) rows, all of them rows of the
\* user, in descending creation time, totalPages = ceil(totalCount /
\* limit'), hasNextPage = (page' < totalPages), hasPreviousPage =
\* (page' > 1); and no step of it writes anything.
HistoryShape ==
    IsHistory =>
       /\ last.currentPage = (IF last.page < 1 THEN 1 ELSE last.page)
       /\ Len(last.rows) <= ClampedLimit(last.limit)
       /\ \A k \in DOMAIN last.rows :
             /\ last.rows[k] \in DOMAIN txs
             /\ \/ txs[last.rows[k]].senderId = last.s
                \/ txs[last.rows[k]].receiverId = last.s
       /\ \A k, l \in DOMAIN last.rows :
             k < l => CreatedAt(txs, last.rows[k])
                         >= CreatedAt(txs, last.rows[l])
       /\ last.totalPages * ClampedLimit(last.limit) >= last.totalCount
       /\ (last.totalPages - 1) * ClampedLimit(last.limit) < last.totalCount
       /\ last.hasNextPage <=> last.currentPage < last.totalPages
       /\ last.hasPreviousPage <=> last.currentPage > 1
       /\ ~last.wrote

\* C14 as one formula: every finished history call has the shape above and
\* has written nothing.
HistoryMetadata ==
    /\ []HistoryShape
    /\ [][HistoryStep => UNCHANGED <<users, txs, stripeEvents>>]_vars

\* a middle page: one row of three, with a page before and a page after
HistoryMetadataWitness ==
    /\ IsHistory /\ last.res = "ok"
    /\ last.page = 2 /\ last.limit = 1 /\ Len(last.rows) = 1
    /\ last.totalCount = 3 /\ last.totalPages = 3
    /\ last.hasNextPage /\ last.hasPreviousPage

RowsOf(rec) == {rec.rows[k] : k \in DOMAIN rec.rows}

\* two finished calls for the same user and limit that read the same log
SameLog(a, b) ==
    /\ a.op = "history" /\ b.op = "history"
    /\ a.s = b.s /\ a.take = b.take
    /\ a.ver = b.ver /\ a.totalCount = b.totalCount

\* C15: with the log unchanged and the limit fixed, the pages of a user's
\* history hold every row of the user exactly once.  The sizes of the
\* pages add up to the number of rows, so this is: two different pages
\* never hold the same row.  Checked on each call and the call that
\* finished before it.
PaginationConsistency ==
    [][(SameLog(last, last') /\ last.currentPage # last'.currentPage)
          => RowsOf(last) \cap RowsOf(last') = {}]_vars

\* C16: every user has at least one of canGiveTips / canReceiveTips.
TipPreferenceKept ==
    \A u \in DOMAIN users : users[u].canGiveTips \/ users[u].canReceiveTips

\* ------------------------------------------------------ payout settlement
\* the processor ids a run can hand out
Refs == 1..(OpenRef + MaxOps)

\* the webhook has stored a payout.paid or payout.failed event for the
\* payout po of a WITHDRAW row
PayoutEventDelivered(po) ==
    /\ \E i \in DOMAIN txs : txs[i].type = "WITHDRAW" /\ txs[i].po = po
    /\ \E k \in PayoutKinds : EventId(k, po) \in DOMAIN stripeEvents

PayoutSettled(po) ==
    \A i \in DOMAIN txs :
       (txs[i].type = "WITHDRAW" /\ txs[i].po = po) =>
          txs[i].status \in Terminal

\* C17: once the payout's settlement event has been delivered, the WITHDRAW
\* row of createPayout eventually becomes COMPLETED or FAILED.
PayoutSettlement ==
    \A po \in Refs : PayoutEventDelivered(po) ~> PayoutSettled(po)

\* ------------------------------------------- concurrent duplicate delivery
\* the handler is past the insert of the event record
Processing(rec) ==
    rec.pc \in {"psFind", "psUpdate", "psCredit", "pfFind", "pfUpdate",
                "whMark"}

\* C18: of two deliveries of one event that overlap, only one gets past
\* the insert of the event record; the other fails on the insert, is
\* answered with an error and has written nothing; and the balance is
\* credited for an event at most once, by the transaction amount.
OneDeliveryProceeds ==
    /\ \A p, q \in Procs :
          (p # q /\ Processing(proc[p]) /\ Processing(proc[q])) =>
             EventId(proc[p].kind, proc[p].ref)
                # EventId(proc[q].kind, proc[q].ref)
    /\ (last.op = "webhook" /\ last.res = "error400" /\ last.tx = 0) =>
          ~last.wrote

CreditedOnce ==
    \A ev \in DOMAIN credited :
       (ev \in DOMAIN credited' /\ credited'[ev] # credited[ev]) =>
          /\ credited[ev] = Zero
          /\ \E p \in Procs :
                /\ proc[p].pc = "psCredit"
                /\ EventId(proc[p].kind, proc[p].ref) = ev
                /\ credited'[ev] = txs[proc[p].tx].amount

\* C18 as one formula: of the concurrent deliveries of one event at most
\* one proceeds, and the event is credited at most once.
ConcurrentDuplicate == []OneDeliveryProceeds /\ [][CreditedOnce]_vars

\* the second delivery had read the event table before the first one
\* inserted its record, and fails on the insert after the first credited
ConcurrentDuplicateWitness ==
    /\ last.op = "webhook" /\ last.kind = "succeeded"
    /\ last.res = "error400" /\ ~last.dup /\ last.tx = 0
    /\ credited[EventId(last.kind, last.ref)] = Parsed[InitIntentMills]
    /\ users["u1"].balance
          \in {Parsed[InitIntentMills],
               DAdd(Parsed[InitFundMills], Parsed[InitIntentMills])}

\* ------------------------------------------------ atomic settlement
\* the calls in progress and the one that finished last
Calls == {proc[p] : p \in Procs} \cup {last}

\* C19: an ADD_FUNDS row that processSuccessfulPayment has set to COMPLETED
\* has had its amount added to the receiver's balance, in every state.
AtomicSettlement ==
    \A rec \in Calls :
       (/\ rec.op = "webhook" /\ rec.kind = "succeeded"
        /\ rec.tx # 0 /\ rec.wrote
        /\ txs[rec.tx].status = "COMPLETED") =>
          credited[EventId(rec.kind, rec.ref)] = txs[rec.tx].amount

\* ---------------------------------------------------- no lost update
\* what the step of process p is meant to add to the balance of user u:
\* the amount of the operation that commits in the step
OwnEffect(p, u) ==
    IF TipCommits(p)
    THEN (IF u = proc[p].r THEN proc[p].ramt
          ELSE IF u = proc[p].s THEN Neg(proc[p].ramt) ELSE Zero)
    ELSE IF proc[p].pc = "psCredit" /\ proc'[p].pc = "whMark"
            /\ u = proc[p].r
         THEN proc[p].num
    ELSE IF proc[p].pc = "poDebit" /\ proc'[p].pc = "idle" /\ u = proc[p].s
         THEN Neg(proc[p].num)
    ELSE IF proc[p].pc = "wdCommit" /\ proc'[p].pc = "idle"
            /\ u = proc[p].s
         THEN Neg(proc[p].ramt)
    ELSE IF proc[p].pc = "rfCommit" /\ proc'[p].pc = "idle"
            /\ u = proc[p].r
         THEN proc[p].ramt
    ELSE Zero

StepEffect(u) ==
    LET movers == {p \in Procs : OwnEffect(p, u) # Zero}
    IN IF movers = {} THEN Zero
       ELSE OwnEffect(CHOOSE p \in movers : TRUE, u)

\* C20: every step changes every balance by exactly the amount of the
\* operation that commits in it, so the balance always holds the effect of
\* every committed operation; a sendTip whose read is stale does not
\* commit.
NoLostUpdate ==
    [][\A u \in DOMAIN users :
          IF StepEffect(u) = Zero
          THEN users'[u].balance = users[u].balance
          ELSE users'[u].balance = DAdd(users[u].balance, StepEffect(u))]_vars

\* a tip had read a balance that a settlement then credited; the tip was
\* refused and the credit is in the balance
NoLostUpdateWitness ==
    /\ last.op = "tip" /\ last.res = "WriteConflict"
    /\ \E ev \in DOMAIN credited :
          /\ ev[2] = OpenRef /\ credited[ev] = Parsed[InitIntentMills]
          /\ \E u \in {last.s, last.r} :
                users[u].balance
                   = DAdd(Parsed[InitFundMills], Parsed[InitIntentMills])

\* ------------------------------------------------ initiation of a settlement
\* the step belongs to createPaymentIntent or to createPayout
InitiationStep ==
    \E p \in Procs :
       /\ proc'[p] # proc[p]
       /\ \/ proc[p].pc \in {"cpCustomer", "cpCreate", "cpInsert", "poIssue",
                            "poDebit"}
          \/ proc'[p].pc \in {"cpCustomer", "cpCreate", "poIssue"}

\* C21: createPaymentIntent and createPayout insert a PENDING row and leave
\* every balance as it was: no step of either changes a balance, and the
\* row each inserts is PENDING.
InitiationFrame ==
    [][InitiationStep =>
          /\ \A u \in DOMAIN users : users'[u].balance = users[u].balance
          /\ \A i \in DOMAIN txs' \ DOMAIN txs :
                txs'[i].status = "PENDING"]_vars

\* ------------------------------------------------------------- redelivery
\* the record of the event that handler p is about to store exists,
\* unprocessed, and no other handler is working on that event: an earlier
\* delivery stored it and failed before marking it processed
StoredUnprocessed(p) ==
    LET ev == EventId(proc[p].kind, proc[p].ref)
    IN /\ proc[p].pc = "whStore"
       /\ ev \in DOMAIN stripeEvents /\ ~stripeEvents[ev]
       /\ \A q \in Procs \ {p} :
             ~(/\ Processing(proc[q])
               /\ EventId(proc[q].kind, proc[q].ref) = ev)

\* C22: a delivery that finds the event's record stored and unprocessed,
\* left by an attempt that failed, is processed: it goes on to the
\* settlement instead of being answered with an error.
RedeliveryProceeds ==
    [][\A p \in Procs :
          (StoredUnprocessed(p) /\ proc'[p] # proc[p]) =>
             /\ Processing(proc'[p])
             /\ last' = last]_vars

\* --------------------------------------------------------- event lifecycle
\* what handler p, about to mark its event processed, has behind it: for a
\* payment event either the search found no PENDING row and there is none,
\* or the status of the row found has been written and, for a success
\* event, the receiver's balance has been credited the row's amount
SettlementWritten(p) ==
    LET me == proc[p]
        ev == EventId(me.kind, me.ref)
    IN IF me.kind \notin Kinds THEN TRUE
       ELSE IF me.tx = 0
            THEN FindPending(me.ref) = 0 /\ ~me.wrote /\ credited[ev] = Zero
       ELSE /\ me.wrote
            /\ txs[me.tx].status \in Terminal
            /\ me.kind = "succeeded" => credited[ev] = txs[me.tx].amount
            /\ me.kind = "failed" => credited[ev] = Zero

\* the event record changes only by being created unprocessed and by being
\* marked processed, once, by a handler with its settlement written
LifecycleStep ==
    \A ev \in DOMAIN stripeEvents' :
       IF ev \notin DOMAIN stripeEvents THEN ~stripeEvents'[ev]
       ELSE /\ stripeEvents[ev] => stripeEvents'[ev]
            /\ (~stripeEvents[ev] /\ stripeEvents'[ev]) =>
                  \E p \in Procs :
                     /\ proc[p].pc = "whMark" /\ proc'[p].pc = "idle"
                     /\ EventId(proc[p].kind, proc[p].ref) = ev
                     /\ SettlementWritten(p)

\* no processed success event has a handler that wrote the status of its
\* row without the balance credit
ProcessedComplete ==
    \A rec \in Calls :
       LET ev == EventId(rec.kind, rec.ref)
       IN (/\ rec.op = "webhook" /\ rec.kind = "succeeded" /\ rec.wrote
           /\ ev \in DOMAIN stripeEvents /\ stripeEvents[ev]) =>
             credited[ev] = txs[rec.tx].amount

\* C23: an event record is created with processed = false, and processed
\* becomes true only in the handler's last step, after the status update
\* and (for a success event) the balance update have been written; a
\* processed event never has the status written and the credit missing.
EventLifecycle == []ProcessedComplete /\ [][LifecycleStep]_vars

\* a success event is processed: its row is COMPLETED and its amount is in
\* the receiver's balance
EventLifecycleWitness ==
    /\ last.op = "webhook" /\ last.kind = "succeeded" /\ ~last.dup
    /\ last.res = "received" /\ last.tx # 0
    /\ stripeEvents[EventId(last.kind, last.ref)]
    /\ txs[last.tx].status = "COMPLETED"
    /\ credited[EventId(last.kind, last.ref)] = txs[last.tx].amount
    /\ DLeq(txs[last.tx].amount, users[txs[last.tx].receiverId].balance)

\* ------------------------------------------------- events with no open row
\* no row of the ledger is PENDING for payment intent pi: the intent is
\* unknown, or its row is COMPLETED or FAILED already
NoPending(pi) ==
    \A i \in DOMAIN txs : ~(txs[i].pi = pi /\ txs[i].status = "PENDING")

\* the steps of a handler whose event has no PENDING row: the search ends
\* the settlement, and the mark acknowledges the event
NoopStep ==
    \A p \in Procs :
       /\ (/\ proc[p].pc \in {"psFind", "pfFind"}
           /\ NoPending(proc[p].ref)
           /\ proc'[p] # proc[p]) =>
             /\ proc'[p].pc = "whMark" /\ proc'[p].tx = 0
             /\ users' = users /\ txs' = txs
       /\ (/\ proc[p].pc = "whMark" /\ proc[p].kind \in Kinds
           /\ proc[p].tx = 0
           /\ proc'[p] # proc[p]) =>
             /\ last'.res = "received" /\ ~last'.wrote
             /\ stripeEvents'[EventId(proc[p].kind, proc[p].ref)]
             /\ users' = users /\ txs' = txs

\* a handler that found no PENDING row has written nothing
NoopState ==
    \A rec \in Calls :
       (/\ rec.op = "webhook" /\ rec.kind \in Kinds
        /\ rec.tx = 0) =>
          /\ ~rec.wrote
          /\ rec.pc \in {"idle", "whStore", "psFind", "pfFind", "whMark"}

\* C24: a success or failure event whose payment intent has no PENDING row
\* (unknown, or already terminal) changes no row and no balance, and is
\* marked processed and acknowledged.
BenignNoop == []NoopState /\ [][NoopStep]_vars

\* a failure event arrives for a payment intent whose row a success event
\* has completed: acknowledged, the row and the credit stay
BenignNoopWitness ==
    /\ last.op = "webhook" /\ last.kind = "failed" /\ ~last.dup
    /\ last.tx = 0 /\ last.res = "received" /\ ~last.wrote
    /\ stripeEvents[EventId("failed", last.ref)]
    /\ EventId("succeeded", last.ref) \in DOMAIN credited
    /\ \E i \in DOMAIN txs :
          /\ txs[i].pi = last.ref /\ txs[i].status = "COMPLETED"
          /\ credited[EventId("succeeded", last.ref)] = txs[i].amount

\* ------------------------------------------------------ order of the checks
\* C25: a tip request is checked in the order users loaded, self-transfer,
\* amount, permissions, sufficiency, and the first failure is the one
\* reported: a request naming a missing user fails with user-not-found
\* whatever its amount, a self-tip between existing users fails as such,
\* and insufficient balance is reported only when both permissions hold.
TipCheckOrder ==
    last.op = "tip" =>
       /\ (~Exists(last.s) \/ ~Exists(last.r)) =>
             last.res \in {"SenderNotFound", "ReceiverNotFound"}
       /\ (Exists(last.s) /\ Exists(last.r) /\ last.s = last.r) =>
             last.res = "SelfTip"
       /\ last.res = "InsufficientBalance" => (last.sGive /\ last.rRecv)

\* ---------------------------------------------------------- row amounts
\* C26: every row of the ledger has an amount greater than 0.
PositiveAmounts == \A i \in DOMAIN txs : DLess(Zero, txs[i].amount)

\* ------------------------------------------------------ opposite tips
\* two sendTip transactions are open that move money in opposite
\* directions between the same two users
OppositeTips ==
    \E p, q \in Procs :
       /\ p # q
       /\ proc[p].pc \in TipOpen /\ proc[q].pc \in TipOpen
       /\ proc[p].s = proc[q].r /\ proc[p].r = proc[q].s

NoTipOpen == \A p \in Procs : proc[p].pc \notin TipOpen

\* a sendTip transaction ends committed or with the store's conflict error
TipEnds ==
    \A p \in Procs :
       (proc[p].pc \in TipOpen /\ proc'[p].pc \notin TipOpen) =>
          /\ proc'[p].pc = "idle"
          /\ last'.op = "tip" /\ last'.res \in {"ok", "WriteConflict"}

\* C27: two concurrent tips in opposite directions between the same two
\* users both come to an end, each one committed or failed with an error.
DeadlockFreedom ==
    /\ OppositeTips ~> NoTipOpen
    /\ [][TipEnds]_vars

\* the second of two opposite tips has ended with a write conflict after
\* the first committed
DeadlockFreedomWitness ==
    /\ last.op = "tip" /\ last.res = "WriteConflict"
    /\ NoTipOpen
    /\ \E i \in DOMAIN txs :
          /\ txs[i].type = "SEND_TIP"
          /\ txs[i].senderId = last.r /\ txs[i].receiverId = last.s

\* ------------------------------------------------------ history snapshot
\* the log as it was when the list of the call rec was read: rows are only
\* ever appended
LogAtFind(rec) == SubSeq(txs, 1, rec.ver)

\* C28: the list and the totalCount of one getTransactionHistory call come
\* from the same state of the log: the count is the number of the user's
\* rows in the log the list was read from.
HistorySnapshot ==
    IsHistory =>
       last.totalCount = Cardinality(Matching(LogAtFind(last), last.s))

\* ------------------------------------------------- one credit per payment
CompletedFundings(pi) ==
    {i \in DOMAIN txs :
        /\ txs[i].type = "ADD_FUNDS" /\ txs[i].status = "COMPLETED"
        /\ txs[i].pi = pi}

\* C29: at most one COMPLETED ADD_FUNDS row carries a given payment-intent
\* id, whatever createPaymentIntent, processSuccessfulPayment and
\* recordFunding calls were made with it.
OneCreditPerPayment ==
    \A pi \in Refs : Cardinality(CompletedFundings(pi)) <= 1

\* ---------------------------------------------------------- payout debit
\* handler p applies the debit of its payout in this step
PayoutDebits(p) == proc[p].pc = "poDebit" /\ proc'[p].pc = "idle"

\* C30: when createPayout debits the balance for a transfer it has issued,
\* the balance covers the amount, decreases by exactly the amount, and one
\* WITHDRAW row carries the payout id.
PayoutAgreement ==
    [][\A p \in Procs :
          PayoutDebits(p) =>
             /\ DLeq(proc[p].num, users[proc[p].s].balance)
             /\ users'[proc[p].s].balance
                   = DSub(users[proc[p].s].balance, proc[p].num)
             /\ Cardinality({i \in DOMAIN txs' :
                               /\ txs'[i].type = "WITHDRAW"
                               /\ txs'[i].po = proc[p].ref}) = 1]_vars
====
